---- MODULE Spec2Model ----
(***************************************************************************)
(* Loan installment engine of the payroll application:                     *)
(* app/(protected)/loans/actions.ts (createLoan, markInstallmentPaid,      *)
(* cancelLoan) over the loans / loan_installments tables and the           *)
(* loan-contracts bucket.                                                  *)
(*                                                                         *)
(* Money.  A JavaScript number that was parsed from, or formatted to, a    *)
(* decimal literal is represented by that decimal counted in thousandths   *)
(* of a currency unit ("mills"): 100.00 is 100000, 50.009 is 50009.  The   *)
(* IEEE-754 double behind it is fl(v / 1000), the nearest 53-bit binary    *)
(* fraction; where the code's result depends on the difference between    *)
(* the double and the decimal (toFixed on a half-cent, the > 0.01 test)    *)
(* that difference is computed exactly with modular arithmetic.            *)
(*                                                                         *)
(* Time.  paid_at is a reading of the clock `now`; 0 stands for NULL.      *)
(***************************************************************************)
EXTENDS Integers, Sequences, FiniteSets, TLC

\* ------------------------------------------------------------------ bounds
MaxLoans == 2
MaxCount == 3
MaxTime  == 4
MaxCents == 320
MaxFaults == 2
MaxDateCount == 14
MaxCalls == 3

\* -------------------------------------------------- IEEE-754 double helpers
Mills == 1000

RECURSIVE Pow2(_)
Pow2(k) == IF k = 0 THEN 1 ELSE 2 * Pow2(k - 1)

RECURSIVE Pow2Mod(_, _)
Pow2Mod(k, m) == IF k = 0 THEN 1 % m ELSE (2 * Pow2Mod(k - 1, m)) % m

\* Binary exponent e of the positive value v / 1000: 2^e <= v / 1000 < 2^(e+1).
RECURSIVE ExpUp(_, _)
ExpUp(v, e) == IF v < 2 * Mills * Pow2(e) THEN e ELSE ExpUp(v, e + 1)

RECURSIVE ExpDown(_, _)
ExpDown(v, k) == IF v * Pow2(k) >= Mills THEN 0 - k ELSE ExpDown(v, k + 1)

Exponent(v) == IF v >= Mills THEN ExpUp(v, 0) ELSE ExpDown(v, 1)

\* Number of fraction bits of the double nearest to v / 1000 (its ulp is
\* 2^-FracBits): a double carries 53 significant bits.
FracBits(v) == 52 - Exponent(v)

\* (v * 2^s) mod m without overflow.
ScaledMod(v, s, m) == ((v % m) * Pow2Mod(s, m)) % m

\* Signed rounding error of parsing the decimal v / 1000 into a double:
\* fl(v / 1000) = v / 1000 + FlErr(v) / (1000 * 2^FracBits(v)).
\* Round to nearest, ties to the even significand.
FlErr(v) ==
    IF v = 0 THEN 0
    ELSE LET s    == FracBits(v)
             rem  == ScaledMod(v, s, Mills)
             odd  == ScaledMod(v, s, 2 * Mills) >= Mills
             up   == rem > Mills \div 2 \/ (rem = Mills \div 2 /\ odd)
         IN  IF up THEN Mills - rem ELSE 0 - rem

\* Number.prototype.toFixed(2) followed by parseFloat, applied to the double
\* parsed from the decimal v / 1000 (or to a computed double whose distance
\* from that decimal is far below half a mill and whose decimal is not on a
\* half-cent).  toFixed rounds the exact binary value: a decimal half-cent
\* goes up when its double lies on or above it and down when it lies below.
ToFixed2(v) ==
    IF v % 10 = 5
    THEN IF FlErr(v) >= 0 THEN v + 5 ELSE v - 5
    ELSE 10 * ((v + 5) \div 10)

\* parseFloat((total / count).toFixed(2)) for total = fl(c / 1000).
\* Off a half-cent the quotient rounds to the nearest cent.  On a half-cent
\* h = (c / n) / 1000 the direction is the sign of y - h for
\* y = fl(fl(c / 1000) / n), decided on the grid 2^-sh of h's binade.
QuotientToFixed2(c, n) ==
    IF c % n = 0 /\ (c \div n) % 10 = 5
    THEN LET h     == c \div n
             sx    == FracBits(c)
             sh    == FracBits(h)
             ex    == FlErr(c)
             rh    == ScaledMod(h, sh, Mills)
             gOdd  == ScaledMod(h, sh, 2 * Mills) >= Mills
             lead  == Pow2(sh - sx + 1) * ex
             \* h not a double: y > h iff x / n rounds to the grid point above h
             diff  == lead + 2 * n * rh - n * Mills
             \* h is a double: y >= h iff x / n does not round below h
             diffR == lead + n * Mills
             above == IF rh = 0
                      THEN diffR > 0 \/ (diffR = 0 /\ ~gOdd)
                      ELSE diff > 0 \/ (diff = 0 /\ gOdd)
         IN  IF above THEN h + 5 ELSE h - 5
    ELSE 10 * ((2 * c + 10 * n) \div (20 * n))

\* Math.abs(sum - total) > 0.01 on doubles, for sum = fl(s / 1000) and
\* total = fl(c / 1000), both whole cents.  One cent apart the subtraction is
\* exact (Sterbenz), so the test compares the parse errors of the three
\* literals, scaled to the grid 2^-59 of 0.01.
ScaledErr(v) == IF v = 0 THEN 0 ELSE FlErr(v) * Pow2(FracBits(10) - FracBits(v))

ExceedsTolerance(s, c) ==
    LET hi == IF s >= c THEN s ELSE c
        lo == IF s >= c THEN c ELSE s
    IN  IF hi - lo # 10 THEN hi - lo > 10
        ELSE ScaledErr(hi) - ScaledErr(lo) > ScaledErr(10)

\* NUMERIC(12,2) column: the decimal sent by the client is rounded to two
\* fraction digits, half away from zero.
Numeric2(v) == IF v >= 0 THEN 10 * ((v + 5) \div 10) ELSE 0 - 10 * ((5 - v) \div 10)

RECURSIVE SumSeq(_)
SumSeq(q) == IF q = <<>> THEN 0 ELSE Head(q) + SumSeq(Tail(q))


\* ------------------------------------------------------------------- inputs
\* Actors: an unauthenticated caller and the built-in roles.
Actors == {"anonymous", "owner", "hr", "accountant", "employee"}

\* What the forms and calls of the lifecycle specifications are filled with
\* (amounts in mills).
FormTotals        == {100000}
FormCustomTotals  == {100000, 1000000}
FormCustomAmounts == {<<100000>>, <<40000, 60000>>, <<40000, 50000>>, <<500008, 500006>>,
                      <<0 - 10000, 110000>>, <<400000, 599990>>}
FormStartDates    == {<<2024, 11, 20>>}
SourceInputs      == {"salary", "manual", "cash"}

\* ------------------------------------------------------------ permission gate
\* role_permissions rows seeded for manage_employees.
RolePermissions == [hr |-> TRUE, accountant |-> FALSE, employee |-> FALSE]

CheckPermission(role) ==
    IF role = "owner" THEN TRUE
    ELSE IF role \in DOMAIN RolePermissions THEN RolePermissions[role] ELSE FALSE

\* Mutant of RequireLoanManage: any authenticated caller gets the client.
RequireLoanManage_AnyProfile(actor) == actor # "anonymous"

\* TRUE when the admin client is handed out, FALSE for null.
RequireLoanManage(actor) == actor # "anonymous" /\ CheckPermission(actor)

\* ---------------------------------------------------------------- allocator
RegularAmount(total, count) == QuotientToFixed2(total, count)

\* Mutant of LastAmount: the last installment does not absorb the remainder.
LastAmount_NoAbsorb(total, count) == RegularAmount(total, count)

LastAmount(total, count) == ToFixed2(total - RegularAmount(total, count) * (count - 1))

EqualAmounts(total, count) ==
    [i \in 1..count |-> IF i = count THEN LastAmount(total, count)
                        ELSE RegularAmount(total, count)]

CustomSum(custom) == ToFixed2(SumSeq(custom))

\* The "Determine installment amounts" block: error code ("" for none) and
\* the amounts.
InstallmentAmounts(total, count, mode, custom) ==
    IF mode = "custom"
    THEN IF Len(custom) # count
         THEN [error |-> "custom_length", amounts |-> <<>>]
         ELSE IF \E i \in 1..Len(custom) : custom[i] < 0
         THEN [error |-> "custom_invalid", amounts |-> <<>>]
         ELSE IF ExceedsTolerance(CustomSum(custom), total)
         THEN [error |-> "custom_sum", amounts |-> <<>>]
         ELSE [error |-> "", amounts |-> custom]
    ELSE [error |-> "", amounts |-> EqualAmounts(total, count)]

\* ----------------------------------------------------------- date generator
PAYMENT_DAY == 10

\* Mutant of DeductionDate: the month wraps without carrying into the year.
DeductionDate_NoCarry(start, i) ==
    <<start[1], ((start[2] + i) % 12) + 1, PAYMENT_DAY>>

\* new Date(year, getMonth() + 1 + i, PAYMENT_DAY) printed as y-m-d; months
\* here are 1..12, i is 0-based.
DeductionDate(start, i) ==
    LET idx == (start[2] - 1) + 1 + i
    IN  <<start[1] + idx \div 12, (idx % 12) + 1, PAYMENT_DAY>>


\* -------------------------------------------------------------------- state
VARIABLES
    loans,          \* loans table: id -> row
    installments,   \* loan_installments table: id -> row
    blobs,          \* objects of the loan-contracts bucket, by storage path
    nextLoanId,     \* the next generated loans.id
    now,            \* the clock
    last,           \* the call that returned last, and what it returned
    alloc,          \* allocator / date generator harness: arguments and result
    inflight,       \* calls that have begun and not returned, each at its next step
    db              \* the tables roles, profiles and employee_payment_methods

vars == <<loans, installments, blobs, nextLoanId, now, last, alloc, inflight, db>>

LoanIds == 1..MaxLoans
\* An installment id is the pair (owning loan, installment_number).
InstallmentIds == LoanIds \X (1..MaxCount)

NoCall ==
    [op |-> "none", actor |-> "", result |-> "ok", loan |-> 0, inst |-> <<0, 0>>,
     failed |-> {}, mode |-> "", amounts |-> <<>>, alreadyPaid |-> 0, instBefore |-> "",
     ownerBefore |-> "", pendingBefore |-> 0]

\* The seeded built-in roles (is_default), two users and one employee
\* without payment methods.
SeedNames ==
    [owner |-> "Owner", hr |-> "HR", accountant |-> "Accountant", employee |-> "Employee"]

SeededDb ==
    [roles    |-> [r \in {"owner", "hr", "accountant", "employee"} |->
                     [name |-> SeedNames[r], is_default |-> TRUE]],
     profiles |-> [u \in {"u1", "u2"} |-> IF u = "u1" THEN "owner" ELSE "employee"],
     methods  |-> [e \in {"e1"} |-> <<>>]]

NoInflight == [begun |-> 0, peak |-> 0, calls |-> {}]

NoAlloc == [phase |-> "off", total |-> 0, count |-> 0, mode |-> "",
            custom |-> <<>>, error |-> "", amounts |-> <<>>, stored |-> <<>>,
            start |-> <<0, 0, 0>>, dates |-> <<>>,
            preview |-> [regular |-> 0, last |-> 0], due |-> <<>>]

\* ---------------------------------------------------------------- the store
Without(f, D) == [x \in DOMAIN f \ D |-> f[x]]

RowsOfLoan(inst, loanId) == {i \in DOMAIN inst : inst[i].loan_id = loanId}

\* from('loans').delete().eq('id', id); loan_installments.loan_id is declared
\* ON DELETE CASCADE.
DeleteLoan(st, id) ==
    [st EXCEPT !.loans = Without(st.loans, {id}),
               !.installments = Without(st.installments, RowsOfLoan(st.installments, id))]

\* Mutant of UpdateLoanStatus: the update is not restricted to one id.
UpdateLoanStatus_All(ls, id, status) ==
    [l \in DOMAIN ls |-> [ls[l] EXCEPT !.status = status]]

\* from('loans').update({status}).eq('id', id): no row, no change.
UpdateLoanStatus(ls, id, status) ==
    [l \in DOMAIN ls |-> IF l = id THEN [ls[l] EXCEPT !.status = status] ELSE ls[l]]

\* Store steps that a call performs; a call is run against the set F of its
\* steps that the store (or the bucket) rejects.
CreateSteps == {"insert_loan", "insert_installments", "delete_loan", "upload",
                "record_path", "status_update"}
MarkSteps   == {"update_installment", "select_installments", "update_loan"}
CancelSteps == {"update_loan"}

\* The sets of steps that fail together in one call.
FaultSets(steps) == {F \in SUBSET steps : Cardinality(F) <= MaxFaults}

\* --------------------------------------------------------------- createLoan
\* Forms with every field in range, in equal and in custom mode, and forms
\* with one field missing or out of range.
EqualForms ==
    [actor : {"hr"}, employee_id : {"e1"}, total_amount : FormTotals,
     number_of_installments : 1..MaxCount, already_paid : 0..MaxCount,
     installment_mode : {"equal"}, custom_amounts : {<<>>},
     deduction_method : {"salary"}, start_date : FormStartDates,
     contract_file : {FALSE}]

CustomForms ==
    [actor : {"hr"}, employee_id : {"e1"}, total_amount : FormCustomTotals,
     number_of_installments : {1, 2}, already_paid : {0},
     installment_mode : {"custom"}, custom_amounts : FormCustomAmounts,
     deduction_method : {"salary"}, start_date : FormStartDates,
     contract_file : {FALSE}]

BrokenForms ==
    LET base == {f \in EqualForms : f.actor = "hr" /\ f.already_paid = 0}
    IN  {[f EXCEPT !.employee_id = ""] : f \in base}
        \cup {[f EXCEPT !.total_amount = 0] : f \in base}
        \cup {[f EXCEPT !.number_of_installments = 0] : f \in base}
        \cup {[f EXCEPT !.already_paid = 0 - 1] : f \in base}
        \cup {[f EXCEPT !.deduction_method = "cash"] : f \in base}

\* Forms of the other callers: one form for the owner; for the callers
\* without the permission a form that passes validation, one that does not
\* and one with a contract file.
ActorForms ==
    LET base == {g \in EqualForms : g.number_of_installments = 1 /\ g.already_paid = 0}
    IN  {[f EXCEPT !.actor = "owner"] : f \in base}
        \cup {[f EXCEPT !.actor = a] : a \in Actors \ {"owner", "hr"}, f \in base}
        \cup {[f EXCEPT !.actor = a, !.total_amount = 0] :
                  a \in Actors \ {"owner", "hr"}, f \in base}
        \cup {[f EXCEPT !.actor = a, !.contract_file = TRUE] :
                  a \in Actors \ {"owner", "hr"}, f \in base}

Forms == EqualForms \cup ActorForms \cup CustomForms \cup BrokenForms

\* Forms of the calls made against a failing store: with and without a
\* contract file.
FaultForms ==
    {f \in [actor : {"hr", "employee"}, employee_id : {"e1"}, total_amount : FormTotals,
            number_of_installments : {1, MaxCount}, already_paid : 0..MaxCount,
            installment_mode : {"equal"}, custom_amounts : {<<>>},
            deduction_method : {"salary"}, start_date : FormStartDates,
            contract_file : BOOLEAN] :
        f.already_paid \in {0, f.number_of_installments}}

\* Mutant of ValidateForm: already_paid is not compared with the count.
ValidateForm_NoUpperBound(form) ==
    IF form.employee_id = "" THEN "required"
    ELSE IF form.total_amount <= 0 THEN "total"
    ELSE IF form.number_of_installments < 1 THEN "count"
    ELSE IF form.already_paid < 0 THEN "already_negative"
    ELSE IF form.deduction_method \notin {"salary", "bonus", "flexible"} THEN "method"
    ELSE InstallmentAmounts(form.total_amount, form.number_of_installments,
                            form.installment_mode, form.custom_amounts).error

\* The checks before the first write; "" when the form passes.
ValidateForm(form) ==
    IF form.employee_id = "" THEN "required"
    ELSE IF form.total_amount <= 0 THEN "total"
    ELSE IF form.number_of_installments < 1 THEN "count"
    ELSE IF form.already_paid < 0 THEN "already_negative"
    ELSE IF form.already_paid > form.number_of_installments THEN "already_exceeds"
    ELSE IF form.deduction_method \notin {"salary", "bonus", "flexible"} THEN "method"
    ELSE InstallmentAmounts(form.total_amount, form.number_of_installments,
                            form.installment_mode, form.custom_amounts).error

NewLoanRow(form) ==
    [total_amount |-> Numeric2(form.total_amount),
     number_of_installments |-> form.number_of_installments,
     monthly_deduction |-> Numeric2(QuotientToFixed2(form.total_amount,
                                                     form.number_of_installments)),
     start_date |-> form.start_date,
     status |-> "active",
     contract_file_path |-> 0]

\* Mutant of IsPaid: one installment more than already_paid is paid.
IsPaid_Inclusive(form, i) == i <= form.already_paid

\* isPaid of the row at 0-based index i.
IsPaid(form, i) == i < form.already_paid

\* Mutant of NewInstallmentRow: installment_number is the 0-based index.
NewInstallmentRow_ZeroBased(form, id, amounts, k) ==
    LET isPaid == IsPaid(form, k - 1)
    IN  [loan_id |-> id,
         installment_number |-> k - 1,
         deduction_date |-> DeductionDate(form.start_date, k - 1),
         amount |-> Numeric2(amounts[k]),
         status |-> IF isPaid THEN "paid" ELSE "pending",
         paid_at |-> IF isPaid THEN now ELSE 0,
         payment_source |-> IF isPaid THEN "manual" ELSE "null"]

NewInstallmentRow(form, id, amounts, k) ==
    LET isPaid == IsPaid(form, k - 1)
    IN  [loan_id |-> id,
         installment_number |-> k,
         deduction_date |-> DeductionDate(form.start_date, k - 1),
         amount |-> Numeric2(amounts[k]),
         status |-> IF isPaid THEN "paid" ELSE "pending",
         paid_at |-> IF isPaid THEN now ELSE 0,
         payment_source |-> IF isPaid THEN "manual" ELSE "null"]

\* The writes of createLoan after validation, for the allocated amounts and
\* against the failing steps F: the resulting tables, the result and the
\* steps that failed.
CreateLoanWrites(form, amounts, F) ==
    LET id      == nextLoanId
        st0     == [loans |-> loans, installments |-> installments, blobs |-> blobs]
        st1     == [st0 EXCEPT !.loans = (id :> NewLoanRow(form)) @@ loans]
        rows    == [i \in {<<id, k>> : k \in 1..form.number_of_installments}
                      |-> NewInstallmentRow(form, id, amounts, i[2])]
        st2     == [st1 EXCEPT !.installments = rows @@ installments]
        \* the compensating delete, whose outcome the code does not look at
        undo(st) == IF "delete_loan" \in F THEN st ELSE DeleteLoan(st, id)
        undone   == IF "delete_loan" \in F THEN {"delete_loan"} ELSE {}
        st3     == IF form.contract_file
                   THEN [st2 EXCEPT !.blobs = @ \cup {id},
                                    !.loans = IF "record_path" \in F THEN @
                                              ELSE [@ EXCEPT ![id].contract_file_path = id]]
                   ELSE st2
        close   == form.already_paid >= form.number_of_installments
        st4     == IF close /\ "status_update" \notin F
                   THEN [st3 EXCEPT !.loans = UpdateLoanStatus(@, id, "paid")]
                   ELSE st3
    IN  IF "insert_loan" \in F
        THEN [st |-> st0, result |-> "insert_loan", failed |-> {"insert_loan"}, id |-> 0]
        ELSE IF "insert_installments" \in F
        THEN [st |-> undo(st1), result |-> "insert_installments",
              failed |-> {"insert_installments"} \cup undone, id |-> id]
        ELSE IF form.contract_file /\ "upload" \in F
        THEN [st |-> undo(st2), result |-> "upload",
              failed |-> {"upload"} \cup undone, id |-> id]
        ELSE [st |-> st4, result |-> "ok",
              failed |-> (IF form.contract_file THEN F \cap {"record_path"} ELSE {})
                         \cup (IF close THEN F \cap {"status_update"} ELSE {}),
              id |-> id]

CreateLoan(form, F) ==
    /\ now < MaxTime
    /\ nextLoanId <= MaxLoans
    /\ IF ~RequireLoanManage(form.actor)
       THEN /\ UNCHANGED <<loans, installments, blobs, nextLoanId>>
            /\ last' = [NoCall EXCEPT !.actor = form.actor, !.op = "createLoan", !.result = "permission"]
       ELSE \E invalid \in {ValidateForm(form)} :
              IF invalid # ""
              THEN /\ UNCHANGED <<loans, installments, blobs, nextLoanId>>
                   /\ last' = [NoCall EXCEPT !.actor = form.actor, !.op = "createLoan", !.result = invalid]
              ELSE \E a \in {InstallmentAmounts(form.total_amount,
                                                form.number_of_installments,
                                                form.installment_mode,
                                                form.custom_amounts).amounts} :
                   \E w \in {CreateLoanWrites(form, a, F)} :
                      /\ loans' = w.st.loans
                      /\ installments' = w.st.installments
                      /\ blobs' = w.st.blobs
                      /\ nextLoanId' = IF w.id = 0 THEN nextLoanId ELSE nextLoanId + 1
                      /\ last' = [NoCall EXCEPT !.actor = form.actor, !.op = "createLoan", !.result = w.result,
                                                !.loan = w.id, !.failed = w.failed,
                                                !.mode = form.installment_mode,
                                                !.amounts = a,
                                                !.alreadyPaid = form.already_paid]
    /\ now' = now + 1
    /\ UNCHANGED <<alloc, inflight, db>>

\* ------------------------------------------------------ markInstallmentPaid
ValidSources == {"salary", "kpi_bonus", "end_of_contract_bonus", "manual"}

StatusOfLoan(ls, id) == IF id \in DOMAIN ls THEN ls[id].status ELSE ""

PendingOfLoan(inst, loanId) ==
    Cardinality({i \in RowsOfLoan(inst, loanId) : inst[i].status = "pending"})

\* Mutant of EveryPaid: some() in place of every().
EveryPaid_Some(inst, loanId) == \E i \in RowsOfLoan(inst, loanId) : inst[i].status = "paid"

\* allInstallments.every(i => i.status === 'paid') over the rows selected by
\* loan_id; true of an empty selection.
EveryPaid(inst, loanId) == \A i \in RowsOfLoan(inst, loanId) : inst[i].status = "paid"

\* Mutant of MarkedRow: the row is marked paid without a paid timestamp.
MarkedRow_NoStamp(row, at, paymentSource) ==
    [row EXCEPT !.status = "paid", !.payment_source = paymentSource]

\* The columns written by update({status, paid_at, payment_source}).
MarkedRow(row, at, paymentSource) ==
    [row EXCEPT !.status = "paid", !.paid_at = at, !.payment_source = paymentSource]

MarkInstallmentPaid(actor, installmentId, loanId, paymentSource, F) ==
    /\ now < MaxTime
    /\ LET owner  == IF installmentId \in DOMAIN installments
                     THEN installments[installmentId].loan_id ELSE 0
           call   == [NoCall EXCEPT !.actor = actor, !.op = "markInstallmentPaid", !.loan = loanId,
                                    !.inst = installmentId,
                                    !.instBefore =
                                        IF installmentId \in DOMAIN installments
                                        THEN installments[installmentId].status ELSE "",
                                    !.ownerBefore = StatusOfLoan(loans, owner),
                                    !.pendingBefore = PendingOfLoan(installments, owner)]
           marked == [i \in DOMAIN installments |->
                        IF i = installmentId
                        THEN MarkedRow(installments[i], now, paymentSource)
                        ELSE installments[i]]
           \* data is null when the select fails, and ?.every yields undefined
           close  == "select_installments" \notin F /\ EveryPaid(marked, loanId)
       IN  IF ~RequireLoanManage(actor)
           THEN /\ UNCHANGED <<loans, installments>>
                /\ last' = [NoCall EXCEPT !.actor = actor, !.op = "markInstallmentPaid",
                                          !.result = "permission"]
           ELSE IF paymentSource \notin ValidSources
           THEN /\ UNCHANGED <<loans, installments>>
                /\ last' = [NoCall EXCEPT !.actor = actor, !.op = "markInstallmentPaid", !.result = "source"]
           ELSE IF "update_installment" \in F
           THEN /\ UNCHANGED <<loans, installments>>
                /\ last' = [call EXCEPT !.result = "update_installment",
                                        !.failed = {"update_installment"}]
           ELSE /\ installments' = marked
                /\ loans' = IF close /\ "update_loan" \notin F
                            THEN UpdateLoanStatus(loans, loanId, "paid") ELSE loans
                /\ last' = [call EXCEPT !.failed =
                               (F \cap {"select_installments"})
                               \cup (IF close THEN F \cap {"update_loan"} ELSE {})]
    /\ now' = now + 1
    /\ UNCHANGED <<blobs, nextLoanId, alloc, inflight, db>>

\* --------------------------------------------------------------- cancelLoan
CancelLoan(actor, loanId, F) ==
    /\ now < MaxTime
    /\ LET call == [NoCall EXCEPT !.actor = actor, !.op = "cancelLoan", !.loan = loanId,
                                  !.ownerBefore = StatusOfLoan(loans, loanId),
                                  !.pendingBefore = PendingOfLoan(installments, loanId)]
       IN  IF ~RequireLoanManage(actor)
           THEN /\ UNCHANGED loans
                /\ last' = [NoCall EXCEPT !.actor = actor, !.op = "cancelLoan", !.result = "permission"]
           ELSE IF "update_loan" \in F
           THEN /\ UNCHANGED loans
                /\ last' = [call EXCEPT !.result = "update_loan", !.failed = {"update_loan"}]
           ELSE /\ loans' = UpdateLoanStatus(loans, loanId, "cancelled")
                /\ last' = call
    /\ now' = now + 1
    /\ UNCHANGED <<installments, blobs, nextLoanId, alloc, inflight, db>>

\* ------------------------------------------------------- getLoanContractUrl
SignSteps == {"create_signed_url"}

\* The only test on the caller is that a profile exists; the URL is then
\* signed with the admin client, which row level security does not bind.
\* Signing fails for a path that holds no object.
GetLoanContractUrl(actor, filePath, F) ==
    /\ now < MaxTime
    /\ last' = [NoCall EXCEPT !.actor = actor, !.op = "getLoanContractUrl",
                              !.loan = filePath,
                              !.result = IF actor = "anonymous" THEN "unauthenticated"
                                         ELSE IF "create_signed_url" \in F
                                                 \/ filePath \notin blobs
                                         THEN "sign_error"
                                         ELSE "url"]
    /\ now' = now + 1
    /\ UNCHANGED <<loans, installments, blobs, nextLoanId, alloc, inflight, db>>

\* ----------------------------------------------------------- specifications
EmptyTable == [x \in {} |-> 0]

Init ==
    /\ loans = EmptyTable
    /\ installments = EmptyTable
    /\ blobs = {}
    /\ nextLoanId = 1
    /\ now = 1
    /\ last = NoCall
    /\ inflight = NoInflight
    /\ db = SeededDb
    /\ alloc = NoAlloc

\* The arguments of the markInstallmentPaid calls: a permitted caller with
\* every installment id and its own loan id, with every loan id for the
\* installments of the first loan, with every valid source for the first
\* installment of the first loan, and one call for each other caller and
\* for an invalid source.
MarkCalls ==
    {<<"hr", i, i[1], "salary">> : i \in InstallmentIds}
    \cup ({"hr"} \X {i \in InstallmentIds : i[1] = 1} \X LoanIds \X {"salary"})
    \cup ({"hr"} \X {<<1, 1>>} \X {1} \X (SourceInputs \cap ValidSources))
    \cup ((Actors \ {"hr"}) \X {<<1, 1>>} \X {1} \X {"salary"})
    \cup ((Actors \ {"owner", "hr"}) \X {<<1, 1>>} \X {1} \X (SourceInputs \ ValidSources))
    \cup ({"hr"} \X {<<1, 1>>} \X {1} \X (SourceInputs \ ValidSources))

\* The arguments of the cancelLoan calls: a permitted caller with every loan
\* id, and one call for each other caller.
CancelCalls == ({"hr"} \X LoanIds) \cup ((Actors \ {"hr"}) \X {1})

\* The store and the bucket accept every write.
Next ==
    \/ \E form \in Forms : CreateLoan(form, {})
    \/ \E c \in MarkCalls : MarkInstallmentPaid(c[1], c[2], c[3], c[4], {})
    \/ \E c \in CancelCalls : CancelLoan(c[1], c[2], {})

Spec == Init /\ [][Next]_vars

\* The same calls with the forms that fail validation next to a few that
\* pass: equal forms of one or two installments with none paid, and the
\* custom forms.
InputForms ==
    {f \in EqualForms : /\ f.number_of_installments <= 2
                        /\ \/ f.already_paid = 0
                           \/ f.already_paid > f.number_of_installments}
    \cup CustomForms \cup BrokenForms

NextInputs ==
    \/ \E form \in InputForms : CreateLoan(form, {})
    \/ \E c \in MarkCalls : MarkInstallmentPaid(c[1], c[2], c[3], c[4], {})
    \/ \E c \in CancelCalls : CancelLoan(c[1], c[2], {})

SpecInputs == Init /\ [][NextInputs]_vars


\* The store and the bucket may reject any step of any call.
NextFaulty ==
    \/ \E form \in FaultForms :
          \E F \in IF RequireLoanManage(form.actor) THEN FaultSets(CreateSteps) ELSE {{}} :
             CreateLoan(form, F)
    \/ \E i \in InstallmentIds, l \in LoanIds, F \in FaultSets(MarkSteps) :
          MarkInstallmentPaid("hr", i, l, "salary", F)
    \/ \E l \in LoanIds, F \in FaultSets(CancelSteps) : CancelLoan("hr", l, F)
    \/ \E actor \in Actors, path \in LoanIds, F \in FaultSets(SignSteps) :
          GetLoanContractUrl(actor, path, F)

SpecFaulty == Init /\ [][NextFaulty]_vars

\* ------------------------------------------------------- allocator harness
\* The allocation of createLoan on its own: arguments drawn from the sets
\* below, then the amounts it computes and the amounts the rows would carry.
AllocTotals == {10 * c : c \in 1..MaxCents} \cup {25000, 100000}
AllocCustomTotals == {10, 20, 30, 100000, 1000000}
AllocCustomAmounts ==
    {<<10>>, <<20>>, <<0, 10>>, <<100000>>, <<100009>>, <<100020>>, <<99990>>,
     <<50000, 50000>>, <<50000, 50009>>, <<50002, 50002>>, <<40000, 50000>>,
     <<50000, 50020>>, <<0 - 10, 100010>>, <<33330, 33330, 33340>>,
     <<33334, 33334, 33334>>, <<500000, 500010>>, <<500000, 500000>>}

AllocArgs ==
    [total : AllocTotals, count : 1..MaxCount, mode : {"equal"}, custom : {<<>>}]
    \cup [total : AllocCustomTotals, count : 1..MaxCount, mode : {"custom"},
          custom : AllocCustomAmounts]

InitAlloc ==
    /\ loans = EmptyTable
    /\ installments = EmptyTable
    /\ blobs = {}
    /\ nextLoanId = 1
    /\ now = 1
    /\ last = NoCall
    /\ inflight = NoInflight
    /\ db = SeededDb
    /\ \E a \in AllocArgs :
          alloc = [NoAlloc EXCEPT !.phase = "args", !.total = a.total, !.count = a.count,
                                  !.mode = a.mode, !.custom = a.custom]

Allocate ==
    /\ alloc.phase = "args"
    /\ LET r == InstallmentAmounts(alloc.total, alloc.count, alloc.mode, alloc.custom)
       IN  alloc' = [alloc EXCEPT !.phase = "done", !.error = r.error,
                                  !.amounts = r.amounts,
                                  !.stored = [k \in 1..Len(r.amounts) |-> Numeric2(r.amounts[k])]]
    /\ UNCHANGED <<loans, installments, blobs, nextLoanId, now, last, inflight, db>>

SpecAlloc == InitAlloc /\ [][Allocate]_vars

\* ---------------------------------------------------- date generator harness
\* The deduction dates of createLoan on their own: a start date and a count,
\* then the dates of the rows.
DateStarts == {2023, 2024, 2025} \X (1..12) \X {1, 15, 20, 28}

InitDates ==
    /\ loans = EmptyTable
    /\ installments = EmptyTable
    /\ blobs = {}
    /\ nextLoanId = 1
    /\ now = 1
    /\ last = NoCall
    /\ inflight = NoInflight
    /\ db = SeededDb
    /\ \E s \in DateStarts, c \in 1..MaxDateCount :
          alloc = [NoAlloc EXCEPT !.phase = "args", !.mode = "dates",
                                  !.start = s, !.count = c]

GenerateDates ==
    /\ alloc.phase = "args"
    /\ alloc.mode = "dates"
    /\ alloc' = [alloc EXCEPT !.phase = "done",
                              !.dates = [k \in 1..alloc.count |->
                                            DeductionDate(alloc.start, k - 1)]]
    /\ UNCHANGED <<loans, installments, blobs, nextLoanId, now, last, inflight, db>>

SpecDates == InitDates /\ [][GenerateDates]_vars

\* ------------------------------------------------------- Add Loan form preview
\* AddLoanModal: the amounts and due dates the form shows before it is
\* submitted, next to what createLoan stores for the same fields.
PreviewTotals == {100000, 100010, 1000, 123450}
PreviewStarts == {2024} \X {1, 11, 12} \X {10, 20, 31}

DaysInMonth(year, month) ==
    IF month = 2
    THEN IF year % 4 = 0 /\ (year % 100 # 0 \/ year % 400 = 0) THEN 29 ELSE 28
    ELSE IF month \in {4, 6, 9, 11} THEN 30 ELSE 31

\* d = new Date(startDate + 'T00:00:00'); d.setMonth(d.getMonth() + index):
\* the day of the month is kept, and a day the month does not have runs over
\* into the next month.  The printed day, month and year as a date.
GetDueDate(start, index) ==
    LET idx   == (start[2] - 1) + index
        year  == start[1] + idx \div 12
        month == (idx % 12) + 1
        over  == start[3] - DaysInMonth(year, month)
    IN  IF over <= 0 THEN <<year, month, start[3]>>
        ELSE IF month = 12 THEN <<year + 1, 1, over>>
        ELSE <<year, month + 1, over>>

InitPreview ==
    /\ loans = EmptyTable
    /\ installments = EmptyTable
    /\ blobs = {}
    /\ nextLoanId = 1
    /\ now = 1
    /\ last = NoCall
    /\ inflight = NoInflight
    /\ db = SeededDb
    /\ \E total \in PreviewTotals, c \in 1..MaxCount, s \in PreviewStarts :
          alloc = [NoAlloc EXCEPT !.phase = "args", !.mode = "equal", !.total = total,
                                  !.count = c, !.start = s]

\* The form renders regularAmount, lastAmount and getDueDate(i) per row.
ShowPreview ==
    /\ alloc.phase = "args"
    /\ alloc' = [alloc EXCEPT
                   !.phase   = "previewed",
                   !.preview = [regular |-> QuotientToFixed2(alloc.total, alloc.count),
                                last    |-> ToFixed2(alloc.total
                                               - QuotientToFixed2(alloc.total, alloc.count)
                                                   * (alloc.count - 1))],
                   !.due     = [k \in 1..alloc.count |-> GetDueDate(alloc.start, k - 1)]]
    /\ UNCHANGED <<loans, installments, blobs, nextLoanId, now, last, inflight, db>>

\* The form is submitted: the amounts and deduction dates of createLoan's rows.
SubmitPreviewed ==
    /\ alloc.phase = "previewed"
    /\ LET r == InstallmentAmounts(alloc.total, alloc.count, alloc.mode, alloc.custom)
       IN  alloc' = [alloc EXCEPT
                       !.phase   = "done",
                       !.amounts = r.amounts,
                       !.stored  = [k \in 1..Len(r.amounts) |-> Numeric2(r.amounts[k])],
                       !.dates   = [k \in 1..alloc.count |-> DeductionDate(alloc.start, k - 1)]]
    /\ UNCHANGED <<loans, installments, blobs, nextLoanId, now, last, inflight, db>>

NextPreview == ShowPreview \/ SubmitPreviewed

SpecPreview == InitPreview /\ [][NextPreview]_vars

\* -------------------------------------------------------- interleaved calls
\* The calls as the store sees them: each statement sent to the store is a
\* step of its own, and the steps of the calls in flight interleave in any
\* order.  The callers hold the permission and the forms pass validation
\* (neither touches the tables); a call begins with its first statement.
\* The clock does not advance.
ConcForms == {f \in EqualForms : f.already_paid \in {0, f.number_of_installments}}

NoForm == [number_of_installments |-> 0, already_paid |-> 0]

\* peak is the largest number of markInstallmentPaid calls that were in
\* flight together.
Began(c) ==
    LET marks == Cardinality({d \in inflight.calls \cup {c} : d.op = "markInstallmentPaid"})
    IN  [begun |-> inflight.begun + 1,
         peak  |-> IF marks > inflight.peak THEN marks ELSE inflight.peak,
         calls |-> inflight.calls \cup {c}]

Moved(c, d) == [inflight EXCEPT !.calls = (@ \ {c}) \cup {d}]

Returned(c) == [inflight EXCEPT !.calls = @ \ {c}]

\* createLoan: insert into loans ... select('id').single()
CreateInsertLoan(form) ==
    /\ inflight.begun < MaxCalls
    /\ nextLoanId <= MaxLoans
    /\ loans' = (nextLoanId :> NewLoanRow(form)) @@ loans
    /\ nextLoanId' = nextLoanId + 1
    /\ inflight' = Began([op |-> "createLoan", pc |-> "insert_installments",
                          form |-> form, loan |-> nextLoanId, inst |-> <<0, 0>>,
                          every |-> FALSE])
    /\ UNCHANGED <<installments, blobs, now, last, alloc, db>>

\* createLoan: insert into loan_installments, then return unless every
\* installment was already paid.
CreateInsertInstallments(c) ==
    /\ c.op = "createLoan"
    /\ c.pc = "insert_installments"
    /\ LET amounts == EqualAmounts(c.form.total_amount, c.form.number_of_installments)
           rows    == [i \in {<<c.loan, k>> : k \in 1..c.form.number_of_installments}
                         |-> NewInstallmentRow(c.form, c.loan, amounts, i[2])]
       IN  installments' = rows @@ installments
    /\ inflight' = IF c.form.already_paid >= c.form.number_of_installments
                   THEN Moved(c, [c EXCEPT !.pc = "status_update"])
                   ELSE Returned(c)
    /\ UNCHANGED <<loans, blobs, nextLoanId, now, last, alloc, db>>

\* createLoan: update loans set status = 'paid'
CreateStatusUpdate(c) ==
    /\ c.op = "createLoan"
    /\ c.pc = "status_update"
    /\ loans' = UpdateLoanStatus(loans, c.loan, "paid")
    /\ inflight' = Returned(c)
    /\ UNCHANGED <<installments, blobs, nextLoanId, now, last, alloc, db>>

\* markInstallmentPaid: update loan_installments ... eq('id', installmentId)
MarkUpdateInstallment(installmentId, loanId, paymentSource) ==
    /\ inflight.begun < MaxCalls
    /\ installments' = [i \in DOMAIN installments |->
                           IF i = installmentId
                           THEN MarkedRow(installments[i], now, paymentSource)
                           ELSE installments[i]]
    /\ inflight' = Began([op |-> "markInstallmentPaid", pc |-> "select_installments",
                          form |-> NoForm, loan |-> loanId, inst |-> installmentId,
                          every |-> FALSE])
    /\ UNCHANGED <<loans, blobs, nextLoanId, now, last, alloc, db>>

\* markInstallmentPaid: select status from loan_installments eq('loan_id', loanId)
MarkSelectInstallments(c) ==
    /\ c.op = "markInstallmentPaid"
    /\ c.pc = "select_installments"
    /\ inflight' = Moved(c, [c EXCEPT !.pc = "update_loan",
                                      !.every = EveryPaid(installments, c.loan)])
    /\ UNCHANGED <<loans, installments, blobs, nextLoanId, now, last, alloc, db>>

\* Mutant of StatusWrite: the loan is written whatever the fetch showed.
StatusWrite_Always(ls, loanId, every) ==
    UpdateLoanStatus(ls, loanId, IF every THEN "paid" ELSE "active")

\* if (allInstallments.every(...)) update loans set status = 'paid'
StatusWrite(ls, loanId, every) ==
    IF every THEN UpdateLoanStatus(ls, loanId, "paid") ELSE ls

MarkUpdateLoan(c) ==
    /\ c.op = "markInstallmentPaid"
    /\ c.pc = "update_loan"
    /\ loans' = StatusWrite(loans, c.loan, c.every)
    /\ inflight' = Returned(c)
    /\ UNCHANGED <<installments, blobs, nextLoanId, now, last, alloc, db>>

\* cancelLoan is a single statement.
CancelStatement(loanId) ==
    /\ inflight.begun < MaxCalls
    /\ loans' = UpdateLoanStatus(loans, loanId, "cancelled")
    /\ inflight' = [inflight EXCEPT !.begun = @ + 1]
    /\ UNCHANGED <<installments, blobs, nextLoanId, now, last, alloc, db>>

NextConc ==
    \/ \E form \in ConcForms : CreateInsertLoan(form)
    \/ \E c \in inflight.calls : CreateInsertInstallments(c)
    \/ \E c \in inflight.calls : CreateStatusUpdate(c)
    \/ \E i \in InstallmentIds, l \in LoanIds : MarkUpdateInstallment(i, l, "salary")
    \/ \E c \in inflight.calls : MarkSelectInstallments(c)
    \/ \E c \in inflight.calls : MarkUpdateLoan(c)
    \/ \E l \in LoanIds : CancelStatement(l)

SpecConc == Init /\ [][NextConc]_vars

\* The interleaved calls in which every markInstallmentPaid names the loan
\* of its installment and no loan is cancelled.
NextConcOwn ==
    \/ \E form \in ConcForms : CreateInsertLoan(form)
    \/ \E c \in inflight.calls : CreateInsertInstallments(c)
    \/ \E c \in inflight.calls : CreateStatusUpdate(c)
    \/ \E i \in InstallmentIds : MarkUpdateInstallment(i, i[1], "salary")
    \/ \E c \in inflight.calls : MarkSelectInstallments(c)
    \/ \E c \in inflight.calls : MarkUpdateLoan(c)

SpecConcOwn == Init /\ [][NextConcOwn]_vars

\* ------------------------------------------------------------ role management
\* settings/roles/actions.ts and users/actions.ts, statement by statement.
\* profiles.role is plain text: no foreign key ties it to roles.
RoleNames == {"Auditor", "auditor"}

\* slugify(name) for the names above.
Slugify(name) == "auditor"

\* `${id}_${suffix}` for suffix = 2, 3.
Suffixed(id) == <<"auditor_2", "auditor_3">>

RoleArgs == {"hr", "employee", "auditor", "auditor_2"}

\* requireOwner: some signed-in user's profile has the role owner.
RequireOwner == \E u \in DOMAIN db.profiles : db.profiles[u] = "owner"

\* createRole: the first free id among id, id_2, id_3, then the insert,
\* which the unique constraint on name can reject.
CreateRole(name) ==
    /\ inflight.begun < MaxCalls
    /\ RequireOwner
    /\ LET id0  == Slugify(name)
           free == {k \in 1..Len(Suffixed(id0)) : Suffixed(id0)[k] \notin DOMAIN db.roles}
           id   == IF id0 \notin DOMAIN db.roles THEN id0
                   ELSE Suffixed(id0)[CHOOSE k \in free : \A j \in free : k <= j]
       IN  /\ id0 \notin DOMAIN db.roles \/ free # {}
           /\ db' = IF \E r \in DOMAIN db.roles : db.roles[r].name = name
                    THEN db
                    ELSE [db EXCEPT !.roles = (id :> [name |-> name, is_default |-> FALSE]) @@ @]
    /\ inflight' = [inflight EXCEPT !.begun = @ + 1]
    /\ UNCHANGED <<loans, installments, blobs, nextLoanId, now, last, alloc>>

\* deleteRole: select is_default; built-in roles are refused.
DeleteRoleSelectRole(id) ==
    /\ inflight.begun < MaxCalls
    /\ RequireOwner
    /\ inflight' = IF id \in DOMAIN db.roles /\ db.roles[id].is_default
                   THEN [inflight EXCEPT !.begun = @ + 1]
                   ELSE Began([op |-> "deleteRole", pc |-> "select_users", role |-> id])
    /\ UNCHANGED <<loans, installments, blobs, nextLoanId, now, last, alloc, db>>

\* deleteRole: select id from profiles where role = id limit 1
DeleteRoleSelectUsers(c) ==
    /\ c.op = "deleteRole"
    /\ c.pc = "select_users"
    /\ inflight' = IF \E u \in DOMAIN db.profiles : db.profiles[u] = c.role
                   THEN Returned(c)
                   ELSE Moved(c, [c EXCEPT !.pc = "delete"])
    /\ UNCHANGED <<loans, installments, blobs, nextLoanId, now, last, alloc, db>>

\* deleteRole: delete the role's permission rows, then the role.
DeleteRoleDelete(c) ==
    /\ c.op = "deleteRole"
    /\ c.pc = "delete"
    /\ db' = [db EXCEPT !.roles = Without(@, {c.role})]
    /\ inflight' = Returned(c)
    /\ UNCHANGED <<loans, installments, blobs, nextLoanId, now, last, alloc>>

\* updateUser: update profiles set role = ... where id = userId
UpdateUser(userId, role) ==
    /\ inflight.begun < MaxCalls
    /\ RequireOwner
    /\ db' = [db EXCEPT !.profiles[userId] = role]
    /\ inflight' = [inflight EXCEPT !.begun = @ + 1]
    /\ UNCHANGED <<loans, installments, blobs, nextLoanId, now, last, alloc>>

NextRoles ==
    \/ \E name \in RoleNames : CreateRole(name)
    \/ \E id \in RoleArgs : DeleteRoleSelectRole(id)
    \/ \E c \in inflight.calls : DeleteRoleSelectUsers(c)
    \/ \E c \in inflight.calls : DeleteRoleDelete(c)
    \/ \E u \in DOMAIN db.profiles, role \in RoleArgs : UpdateUser(u, role)

SpecRoles == Init /\ [][NextRoles]_vars

\* ------------------------------------------------------ employee payment methods
\* employees/actions.ts with the PaymentMethodsSection of the employee form.
\* A form state gives, per method, whether it is enabled and parseInt of the
\* percentage field (0 where the field does not parse).
ALL_METHODS == <<"deel", "ccb">>

PercentageInputs == {0, 40, 60, 100}

EmployeeIds == {"e1", "e2"}

MethodForms ==
    [{ALL_METHODS[k] : k \in 1..Len(ALL_METHODS)} ->
        [enabled : BOOLEAN, percentage : PercentageInputs]]

EnabledMethods(methods) == SelectSeq(ALL_METHODS, LAMBDA t : methods[t].enabled)

RECURSIVE TotalPercentage(_, _)
TotalPercentage(methods, enabled) ==
    IF enabled = <<>> THEN 0
    ELSE methods[Head(enabled)].percentage + TotalPercentage(methods, Tail(enabled))

\* PaymentMethodsSection.validate: no method enabled, or the total is 100.
Validate(methods) ==
    \/ EnabledMethods(methods) = <<>>
    \/ TotalPercentage(methods, EnabledMethods(methods)) = 100

GetPaymentMethods(methods) ==
    [k \in 1..Len(EnabledMethods(methods)) |->
        [method_type |-> EnabledMethods(methods)[k],
         percentage  |-> methods[EnabledMethods(methods)[k]].percentage]]

\* The forms the client submits.
SubmittedMethods == {GetPaymentMethods(m) : m \in {f \in MethodForms : Validate(f)}}

\* employee_payment_methods: check (percentage between 1 and 100) and
\* unique (employee_id, method_type). One insert statement stores every row
\* or none.
InsertAccepted(rows) ==
    /\ \A k \in 1..Len(rows) : rows[k].percentage >= 1 /\ rows[k].percentage <= 100
    /\ \A j, k \in 1..Len(rows) : rows[j].method_type = rows[k].method_type => j = k

\* savePaymentMethods: the stored rows after the delete and the insert, and
\* whether the insert's error is returned.
SavePaymentMethods(paymentMethods) ==
    IF paymentMethods = <<>> THEN [rows |-> <<>>, error |-> FALSE]
    ELSE IF InsertAccepted(paymentMethods) THEN [rows |-> paymentMethods, error |-> FALSE]
    ELSE [rows |-> <<>>, error |-> TRUE]

\* requireManagePermission: owner always, hr by the seeded permissions.
RequireManagePermission(actor) == actor \in {"owner", "hr"}

AddEmployee(actor, id, paymentMethods) ==
    /\ inflight.begun < MaxCalls
    /\ inflight' = [inflight EXCEPT !.begun = @ + 1]
    /\ \E saved \in {SavePaymentMethods(paymentMethods)} :
         IF ~RequireManagePermission(actor)
         THEN /\ last' = [NoCall EXCEPT !.actor = actor, !.op = "addEmployee", !.result = "permission"]
              /\ UNCHANGED db
         ELSE IF id \in DOMAIN db.methods
         THEN /\ last' = [NoCall EXCEPT !.actor = actor, !.op = "addEmployee", !.result = "insert_employee"]
              /\ UNCHANGED db
         ELSE /\ db' = [db EXCEPT !.methods = (id :> saved.rows) @@ @]
              /\ last' = [NoCall EXCEPT !.actor = actor, !.op = "addEmployee",
                                        !.result = IF saved.error THEN "insert_methods" ELSE "ok"]
    /\ UNCHANGED <<loans, installments, blobs, nextLoanId, now, alloc>>

UpdateEmployee(actor, id, paymentMethods) ==
    /\ inflight.begun < MaxCalls
    /\ id \in DOMAIN db.methods
    /\ inflight' = [inflight EXCEPT !.begun = @ + 1]
    /\ \E saved \in {SavePaymentMethods(paymentMethods)} :
         IF ~RequireManagePermission(actor)
         THEN /\ last' = [NoCall EXCEPT !.actor = actor, !.op = "updateEmployee", !.result = "permission"]
              /\ UNCHANGED db
         ELSE /\ db' = [db EXCEPT !.methods[id] = saved.rows]
              /\ last' = [NoCall EXCEPT !.actor = actor, !.op = "updateEmployee",
                                        !.result = IF saved.error THEN "insert_methods" ELSE "ok"]
    /\ UNCHANGED <<loans, installments, blobs, nextLoanId, now, alloc>>

NextEmployees ==
    \/ \E actor \in {"hr", "employee"}, id \in EmployeeIds, pm \in SubmittedMethods :
           AddEmployee(actor, id, pm)
    \/ \E actor \in {"hr", "employee"}, id \in EmployeeIds, pm \in SubmittedMethods :
           UpdateEmployee(actor, id, pm)

SpecEmployees == Init /\ [][NextEmployees]_vars

\* ------------------------------------------------------------ remaining balance
\* The balance the loan pages show, from the stored rows (amounts in mills,
\* every stored amount a whole cent).
RECURSIVE SumAmounts(_, _)
SumAmounts(inst, ids) ==
    IF ids = {} THEN 0
    ELSE LET i == CHOOSE x \in ids : TRUE
         IN  inst[i].amount + SumAmounts(inst, ids \ {i})

\* filter(i => i.status === 'paid').reduce((s, i) => s + i.amount, 0)
PaidAmount(inst, loanId) ==
    SumAmounts(inst, {i \in RowsOfLoan(inst, loanId) : inst[i].status = "paid"})

Max0(v) == IF v > 0 THEN v ELSE 0

\* LoansTab of the employee page: both the sum and the difference go through
\* toFixed(2).
LoansTabRemaining(ls, inst, loanId) ==
    ToFixed2(Max0(ls[loanId].total_amount - ToFixed2(PaidAmount(inst, loanId))))

\* LoansClient: Math.max(0, loan.total_amount - paidAmount)
LoansClientRemaining(ls, inst, loanId) ==
    Max0(ls[loanId].total_amount - PaidAmount(inst, loanId))


\* =================================================================== claims

\* C1: once a loan's status is paid it stays paid in every later state, under
\* any sequence of createLoan, markInstallmentPaid and cancelLoan calls.
C1_PaidIsTerminal ==
    [][\A l \in DOMAIN loans :
          loans[l].status = "paid" => l \in DOMAIN loans' /\ loans'[l].status = "paid"]_vars

\* C2: once a loan's status is cancelled it stays cancelled in every later
\* state, under any sequence of markInstallmentPaid and cancelLoan calls.
C2_CancelledIsTerminal ==
    [][\A l \in DOMAIN loans :
          loans[l].status = "cancelled"
             => l \in DOMAIN loans' /\ loans'[l].status = "cancelled"]_vars

\* C3: after markInstallmentPaid returned success, the loan that owns the
\* marked installment (active before the call) is paid if all of its
\* installments are paid and active otherwise, whatever loanId was passed.
C3_StatusReflectsInstallments ==
    (/\ last.op = "markInstallmentPaid"
     /\ last.result = "ok"
     /\ last.inst \in DOMAIN installments
     /\ last.ownerBefore = "active")
    => LET owner == installments[last.inst].loan_id
       IN  loans[owner].status =
              IF EveryPaid(installments, owner) THEN "paid" ELSE "active"

\* C4: marking the only pending installment of an active loan, with the
\* loan's own id and a valid source, leaves the loan paid when the call
\* returns; marking a pending installment while another one stays pending
\* leaves the loan active.
C4_MarkedOwnPending ==
    /\ last.op = "markInstallmentPaid"
    /\ last.result = "ok"
    /\ last.inst \in DOMAIN installments
    /\ last.loan = installments[last.inst].loan_id
    /\ last.ownerBefore = "active"
    /\ last.instBefore = "pending"

C4_AutoCompletion ==
    C4_MarkedOwnPending
    => /\ last.pendingBefore = 1 => loans[last.loan].status = "paid"
       /\ last.pendingBefore > 1 => loans[last.loan].status = "active"

C4_Witness ==
    /\ C4_MarkedOwnPending
    /\ last.pendingBefore = 1
    /\ loans[last.loan].number_of_installments = 3
    /\ loans[last.loan].status = "paid"

\* C5: whenever createLoan returns an error, the loans and installments
\* tables equal their contents before the call.
C5_ErrorLeavesNothing ==
    [][(last'.op = "createLoan" /\ last'.result # "ok")
          => loans' = loans /\ installments' = installments]_vars

\* C6: if a step that createLoan performs after the loan row was inserted
\* fails, createLoan returns an error and the loan row and its installments
\* are gone; it never returns success after such a step failed.
C6_FailedStepRollsBack ==
    (/\ last.op = "createLoan"
     /\ last.failed \cap {"insert_installments", "upload", "record_path",
                          "status_update"} # {})
    => /\ last.result # "ok"
       /\ last.loan \notin DOMAIN loans
       /\ RowsOfLoan(installments, last.loan) = {}

\* C7: for every total > 0 in whole cents and every count >= 1, the equal
\* mode amounts of createLoan sum exactly to total.
C7_EqualSumsToTotal ==
    (alloc.phase = "done" /\ alloc.mode = "equal")
    => /\ Len(alloc.amounts) = alloc.count
       /\ SumSeq(alloc.amounts) = alloc.total
       /\ SumSeq(alloc.stored) = alloc.total

C7_Witness ==
    /\ alloc.phase = "done"
    /\ alloc.mode = "equal"
    /\ alloc.total = 100000
    /\ alloc.count = 3
    /\ alloc.amounts[3] # alloc.amounts[1]
    /\ SumSeq(alloc.stored) = 100000

\* C8: every installment row stored by a successful createLoan has a
\* strictly positive amount, in equal and in custom mode.
C8_PositiveAmounts ==
    (alloc.phase = "done" /\ alloc.error = "")
    => \A k \in 1..Len(alloc.stored) : alloc.stored[k] > 0

\* C9: in equal mode the first count - 1 amounts equal regular, the total
\* divided by count and rounded to two decimals, and the last equals total
\* minus regular times (count - 1); a single installment equals the total,
\* and 100.00 in 3 installments is 33.33, 33.33, 33.34.
C9_EqualModeAmounts ==
    (alloc.phase = "done" /\ alloc.mode = "equal")
    => LET \* decimal rounding to the cent, halves away from zero
           regular == 10 * ((2 * alloc.total + 10 * alloc.count) \div (20 * alloc.count))
       IN  /\ \A k \in 1..(alloc.count - 1) : alloc.amounts[k] = regular
           /\ alloc.amounts[alloc.count] = alloc.total - regular * (alloc.count - 1)
           /\ alloc.count = 1 => alloc.amounts = <<alloc.total>>
           /\ (alloc.total = 100000 /\ alloc.count = 3)
                 => alloc.amounts = <<33330, 33330, 33340>>

\* C10: in custom mode the amounts are accepted exactly when there are count
\* of them, none is negative, and their sum rounded to two decimals is within
\* 0.01 of the total; accepted amounts are stored as supplied, in order.
C10_CustomAcceptance ==
    (alloc.phase = "done" /\ alloc.mode = "custom")
    => LET sum     == 10 * ((SumSeq(alloc.custom) + 5) \div 10)
           within  == sum - alloc.total <= 10 /\ alloc.total - sum <= 10
           accept  == /\ Len(alloc.custom) = alloc.count
                      /\ \A k \in 1..Len(alloc.custom) : alloc.custom[k] >= 0
                      /\ within
       IN  /\ alloc.error = "" <=> accept
           /\ alloc.error = "" => alloc.stored = alloc.custom

\* C11: in custom mode the amounts stored by a successful createLoan sum
\* exactly to the loan's total amount.
C11_CustomSumsToTotal ==
    (alloc.phase = "done" /\ alloc.mode = "custom" /\ alloc.error = "")
    => /\ SumSeq(alloc.amounts) = alloc.total
       /\ SumSeq(alloc.stored) = alloc.total

\* C12: in every state, the installment amounts of each loan in the table
\* sum to the loan's total_amount within 0.01, whatever markInstallmentPaid
\* and cancelLoan calls followed its creation.
C12_SumWithinTolerance ==
    \A l \in DOMAIN loans :
       LET rows == RowsOfLoan(installments, l)
           sum  == SumSeq([k \in 1..Cardinality(rows) |-> installments[<<l, k>>].amount])
       IN  /\ sum - loans[l].total_amount <= 10
           /\ loans[l].total_amount - sum <= 10

\* C13: installment i (0-based) falls on day 10 of the calendar month that is
\* 1 + i months after the month of the start date, the year carried on month
\* overflow; 2024-01-15 with 3 installments gives 2024-02-10, 2024-03-10,
\* 2024-04-10 and 2024-11-20 gives 2024-12-10, 2025-01-10, 2025-02-10;
\* consecutive dates are one calendar month apart and strictly increasing.
C13_MonthIndex(d) == 12 * d[1] + (d[2] - 1)

C13_Before(d, e) ==
    \/ d[1] < e[1]
    \/ d[1] = e[1] /\ d[2] < e[2]
    \/ d[1] = e[1] /\ d[2] = e[2] /\ d[3] < e[3]

C14_RowsNumbered(l) ==
    LET rows == RowsOfLoan(installments, l)
        n    == loans[l].number_of_installments
    IN  /\ Cardinality(rows) = n
        /\ {installments[i].installment_number : i \in rows} = 1..n
        /\ \A i \in rows :
              installments[i].deduction_date =
                 DeductionDate(loans[l].start_date, installments[i].installment_number - 1)

C14_CreatedInOrder ==
    (last.op = "createLoan" /\ last.result = "ok")
    => \A i \in RowsOfLoan(installments, last.loan) :
          installments[i].amount = Numeric2(last.amounts[installments[i].installment_number])

C14_RowsKept ==
    \A i \in DOMAIN installments :
       /\ i \in DOMAIN installments'
       /\ installments'[i].loan_id = installments[i].loan_id
       /\ installments'[i].installment_number = installments[i].installment_number
       /\ installments'[i].amount = installments[i].amount
       /\ installments'[i].deduction_date = installments[i].deduction_date

C15_Created == last.op = "createLoan" /\ last.result = "ok"

C15_AlreadyPaidRows ==
    C15_Created
    => /\ last.alreadyPaid \in 0..loans[last.loan].number_of_installments
       /\ \A i \in RowsOfLoan(installments, last.loan) :
             IF installments[i].installment_number <= last.alreadyPaid
             THEN /\ installments[i].status = "paid"
                  /\ installments[i].payment_source = "manual"
                  /\ installments[i].paid_at = now - 1
                  /\ installments[i].paid_at > 0
             ELSE /\ installments[i].status = "pending"
                  /\ installments[i].paid_at = 0
                  /\ installments[i].payment_source = "null"

C15_Witness ==
    /\ C15_Created
    /\ loans[last.loan].number_of_installments = 3
    /\ last.alreadyPaid = 2
    /\ PendingOfLoan(installments, last.loan) = 1
    /\ installments[<<last.loan, 2>>].status = "paid"
    /\ installments[<<last.loan, 3>>].status = "pending"

\* C16: when createLoan returns success, the new loan is paid if
\* already_paid = count and active if already_paid < count.
C16_StatusAtCreation ==
    (last.op = "createLoan" /\ last.result = "ok")
    => loans[last.loan].status =
          IF last.alreadyPaid = loans[last.loan].number_of_installments
          THEN "paid" ELSE "active"

\* C17: in every state, every installment has a paid timestamp if and only
\* if its status is paid, and a payment source (salary, kpi_bonus,
\* end_of_contract_bonus or manual) if and only if its status is paid.
C17_PaidFieldsIffPaid ==
    \A i \in DOMAIN installments :
       /\ installments[i].status \in {"pending", "paid"}
       /\ installments[i].paid_at # 0 <=> installments[i].status = "paid"
       /\ installments[i].payment_source # "null" <=> installments[i].status = "paid"
       /\ installments[i].payment_source \in
             {"null", "salary", "kpi_bonus", "end_of_contract_bonus", "manual"}

C17_Witness ==
    \E i, j, k \in DOMAIN installments :
       /\ installments[i].status = "paid"
       /\ installments[i].payment_source = "manual"
       /\ installments[j].status = "paid"
       /\ installments[j].payment_source = "salary"
       /\ installments[j].paid_at > installments[i].paid_at
       /\ installments[k].status = "pending"
       /\ last.op = "markInstallmentPaid"
       /\ last.inst = j

\* C18: once an installment is paid, no later call changes its status, its
\* paid timestamp or its payment source; markInstallmentPaid on a paid
\* installment, with the same or another source, leaves the row as it was.
C18_PaidInstallmentFrozen ==
    [][\A i \in DOMAIN installments :
          installments[i].status = "paid"
             => /\ i \in DOMAIN installments'
                /\ installments'[i].status = "paid"
                /\ installments'[i].paid_at = installments[i].paid_at
                /\ installments'[i].payment_source = installments[i].payment_source]_vars

\* C19: cancelLoan on an active loan sets that loan's status to cancelled
\* and changes nothing else: every installment row and every other loan is
\* as before, no installment is deleted or marked paid.
C19_CancelFrame ==
    [][(last'.op = "cancelLoan" /\ last'.result = "ok" /\ last'.ownerBefore = "active")
          => /\ loans' = [loans EXCEPT ![last'.loan].status = "cancelled"]
             /\ loans'[last'.loan].status = "cancelled"
             /\ installments' = installments
             /\ blobs' = blobs]_vars

C19_Witness ==
    /\ last.op = "cancelLoan"
    /\ last.result = "ok"
    /\ last.ownerBefore = "active"
    /\ loans[last.loan].status = "cancelled"
    /\ Cardinality(RowsOfLoan(installments, last.loan)) = 2
    /\ PendingOfLoan(installments, last.loan) = 2
    /\ \E l \in DOMAIN loans : l # last.loan /\ loans[l].status = "active"

\* C20: a pending installment of a cancelled loan stays pending: no
\* markInstallmentPaid or cancelLoan call that follows the cancellation
\* marks it paid or deletes it.
C20_PendingStaysPending ==
    [][\A i \in DOMAIN installments :
          (/\ installments[i].status = "pending"
           /\ loans[installments[i].loan_id].status = "cancelled")
          => /\ i \in DOMAIN installments'
             /\ installments'[i].status = "pending"]_vars

\* C21: a call of createLoan, markInstallmentPaid or cancelLoan by an
\* unauthenticated caller, or by a caller whose role lacks the permission,
\* returns the denial and leaves loans, installments and the contract bucket
\* as they were, whatever the other arguments are.
C21_DeniedCaller == last.actor \in {"anonymous", "accountant", "employee"}

C21_DenialWritesNothing ==
    /\ [](C21_DeniedCaller => last.result = "permission")
    /\ [][last'.result = "permission"
            => /\ last'.actor \in {"anonymous", "accountant", "employee"}
               /\ loans' = loans
               /\ installments' = installments
               /\ blobs' = blobs]_vars

C21_Witness ==
    /\ C21_DeniedCaller
    /\ last.actor = "employee"
    /\ last.op = "markInstallmentPaid"
    /\ last.result = "permission"
    /\ <<1, 1>> \in DOMAIN installments
    /\ installments[<<1, 1>>].status = "pending"
    /\ loans[1].status = "active"

\* C22: createLoan with a missing required field, total <= 0, count < 1,
\* already_paid < 0, already_paid > count, a deduction method outside salary,
\* bonus, flexible, or invalid custom amounts, and markInstallmentPaid with a
\* source outside salary, kpi_bonus, end_of_contract_bonus, manual, return an
\* error and leave loans and installments as they were.
\* (a sum whose two-decimal rounding is two cents or more from the total)
C22_InvalidCustom(form) ==
    /\ form.installment_mode = "custom"
    /\ \/ Len(form.custom_amounts) # form.number_of_installments
       \/ \E k \in 1..Len(form.custom_amounts) : form.custom_amounts[k] < 0
       \/ SumSeq(form.custom_amounts) - form.total_amount > 15
       \/ form.total_amount - SumSeq(form.custom_amounts) > 15

C22_InvalidForm(form) ==
    \/ form.employee_id = ""
    \/ form.total_amount <= 0
    \/ form.number_of_installments < 1
    \/ form.already_paid < 0
    \/ form.already_paid > form.number_of_installments
    \/ form.deduction_method \notin {"salary", "bonus", "flexible"}
    \/ C22_InvalidCustom(form)

C22_Rejected ==
    /\ last'.result \notin {"ok", "permission"}
    /\ loans' = loans
    /\ installments' = installments

\* The invalid calls of callers holding the permission.
C22_InvalidForms ==
    {form \in InputForms : RequireLoanManage(form.actor) /\ C22_InvalidForm(form)}

C22_InvalidMarks ==
    {c \in MarkCalls :
        /\ RequireLoanManage(c[1])
        /\ c[4] \notin {"salary", "kpi_bonus", "end_of_contract_bonus", "manual"}}

C22_InvalidInputWritesNothing ==
    /\ [][last'.op = "createLoan"
            => \/ C22_Rejected
               \/ \A form \in C22_InvalidForms :
                     ~(form.actor = last'.actor /\ CreateLoan(form, {}))]_vars
    /\ [][last'.op = "markInstallmentPaid"
            => \/ C22_Rejected
               \/ \A c \in C22_InvalidMarks :
                     ~(c[1] = last'.actor
                       /\ MarkInstallmentPaid(c[1], c[2], c[3], c[4], {}))]_vars

C22_Witness ==
    /\ last.op = "createLoan"
    /\ last.result = "custom_sum"
    /\ 1 \in DOMAIN loans
    /\ loans[1].status = "paid"
    /\ nextLoanId = 2

\* C23: when markInstallmentPaid calls on distinct installments of one active
\* loan, each naming that loan, run with their steps interleaved in any
\* order, then once every call has returned and every installment of the
\* loan is paid, the loan is paid.
C23_AllPaid(l) ==
    /\ RowsOfLoan(installments, l) # {}
    /\ EveryPaid(installments, l)

C23_NoLoanStuckActive ==
    inflight.calls = {}
    => \A l \in DOMAIN loans : C23_AllPaid(l) => loans[l].status = "paid"

C23_Witness ==
    /\ inflight.calls = {}
    /\ inflight.peak >= 2
    /\ \E l \in DOMAIN loans :
          /\ loans[l].status = "paid"
          /\ Cardinality(RowsOfLoan(installments, l)) >= 2
          /\ \A i \in RowsOfLoan(installments, l) :
                installments[i].payment_source = "salary"

\* C24: a loan is visible only together with its full installment set: in
\* no state that a concurrent call can observe does a loan row exist while
\* its installment rows are missing or incomplete.
C24_LoanVisibleWithInstallments ==
    \A l \in DOMAIN loans :
       Cardinality(RowsOfLoan(installments, l)) = loans[l].number_of_installments

\* C25: getLoanContractUrl hands a signed URL only to a caller whose role is
\* owner, hr or accountant; any other caller gets an error and no URL.
C25_UrlOnlyForReaders ==
    (last.op = "getLoanContractUrl" /\ last.result = "url")
    => last.actor \in {"owner", "hr", "accountant"}

\* C26: under any interleaving of createRole, deleteRole and updateUser
\* calls by an owner, a built-in role is never deleted, and a custom role is
\* deleted only if no user is assigned to it: when a role is deleted no
\* profile references it.
C26_DeletedRoleUnreferenced ==
    [][\A r \in DOMAIN db.roles :
          r \notin DOMAIN db'.roles
             => /\ ~db.roles[r].is_default
                /\ \A u \in DOMAIN db'.profiles : db'.profiles[u] # r]_vars

\* C27: in every state each employee's stored payment methods are empty or
\* have percentages summing to exactly 100, and an updateEmployee call that
\* returns an error leaves every employee's stored payment methods as they
\* were.
C27_StoredTotal(rows) == SumSeq([k \in 1..Len(rows) |-> rows[k].percentage])

C27_MethodsSumTo100 ==
    /\ [](\A e \in DOMAIN db.methods :
             db.methods[e] = <<>> \/ C27_StoredTotal(db.methods[e]) = 100)
    /\ [][(last'.op = "updateEmployee" /\ last'.result # "ok")
             => db'.methods = db.methods]_vars

\* C29: for every loan whose status is paid, the remaining balance shown on
\* the employee page and on the loans page is 0.
C29_PaidLoanHasNoBalance ==
    \A l \in DOMAIN loans :
       loans[l].status = "paid"
          => /\ LoansTabRemaining(loans, installments, l) = 0
             /\ LoansClientRemaining(loans, installments, l) = 0

\* C30: for every total, count and start date, the regular and last amounts
\* previewed in the Add Loan form equal the stored amounts, and the due date
\* previewed for installment i equals the deduction date stored for
\* installment i.
C30_AmountsAgree ==
    \A k \in 1..alloc.count :
       alloc.stored[k] = IF k = alloc.count THEN alloc.preview.last
                         ELSE alloc.preview.regular

C30_PreviewAgreesWithStored ==
    alloc.phase = "done"
       => /\ C30_AmountsAgree
          /\ \A k \in 1..alloc.count : alloc.due[k] = alloc.dates[k]

\* C28: in every state, the intermediate states of interleaved calls with
\* arbitrary installmentId / loanId arguments included, every installment of
\* a loan whose status is paid is paid.
C28_PaidLoanAllPaid ==
    \A l \in DOMAIN loans :
       loans[l].status = "paid" => EveryPaid(installments, l)

====
